---- MODULE Spec2Model ----
(***************************************************************************)
(* geofs-radar: the viewer's reconnection controller (src/app/page.tsx),   *)
(* the aircraft registry with its removal endpoint, and the broadcast hub. *)
(*                                                                         *)
(* The module holds one specification per component; the variables of the  *)
(* other components stay unchanged in each of them:                        *)
(*   SpecViewer      the ATCPage stream effect, connectToStream, timers    *)
(*   SpecViewerFair  SpecViewer plus the timer's fairness (liveness)       *)
(*   SpecChannelFair  the reporter's WebSocket channel, fair event loop    *)
(*   SpecHub         registry, ingestion, removal, broadcast hub           *)
(*   SpecPresence    the viewer presence tracker (GET / POST)              *)
(*   SpecGeo         the pure functions: the geodesy helpers of the radar  *)
(*                   map and the altitude fields of a report               *)
(*   SpecReporter    the in-simulator reporter (sampling tick, WebSocket)  *)
(***************************************************************************)
EXTENDS Integers, Sequences, FiniteSets, TLC

(***************************************************************************)
(* Bounds of the model.                                                    *)
(***************************************************************************)
\* EventSource objects one viewer session may construct
MaxSources == 8

\* waypoints of one flight plan
MaxWaypoints == 3

\* the reporter's clock stops here (ms)
MaxReporterNow == 15000

\* WebSocket objects one reporter may construct
MaxSockets == 3

\* ground-to-airborne transitions of the vehicle that are counted
MaxLiftoffs == 2

(***************************************************************************)
(* Viewer state (src/src/app/page.tsx, ATCPage).                           *)
(***************************************************************************)
VARIABLES
    phase,                \* "init" | "mounted" | "torndown": the stream effect's life
    sources,              \* readyState of every EventSource constructed, in order
    eventSourceRef,       \* index into sources, 0 = null
    timers,               \* pending setTimeout callbacks: [id, delay]
    timersSet,            \* number of setTimeout calls so far (source of timer ids)
    reconnectTimeoutRef,  \* id of the last timer set, 0 = null
    reconnectAttempts,    \* reconnectAttempts.current
    connectionStatus,     \* 'connecting' | 'connected' | 'disconnected'
    error,                \* NoError or the reconnect message with its seconds
    aircrafts,            \* the aircraft list shown
    isLoading,
    errsSinceOpen,        \* history: channel errors since the last successful open
    failsBeforeOpen,      \* history: channel errors that preceded the last open
    delivered             \* history: the stream message the last step handled

viewerVars == <<phase, sources, eventSourceRef, timers, timersSet,
                reconnectTimeoutRef, reconnectAttempts, connectionStatus,
                error, aircrafts, isLoading, errsSinceOpen, failsBeforeOpen,
               delivered>>

(***************************************************************************)
(* Server state: the aircraft registry (activeAircraft of                  *)
(* ~/lib/aircraft-store), the server clock and the broadcast hub.          *)
(***************************************************************************)
VARIABLES
    activeAircraft,   \* Map: aircraft id -> [id, lat, heading, lastSeen]
    serverNow,        \* Date.now() of the server, in ms
    connections,      \* the hub's set of viewer connections
    broken,           \* connections whose client has gone: the next push fails
    sent,             \* the pushes of the last handler: connection -> message
    response,         \* the HTTP response of the last handler
    lastOp            \* history: the last handler, its input, the entry it found

hubVars == <<activeAircraft, serverNow, connections, broken, sent, response, lastOp>>

(***************************************************************************)
(* Presence tracker state (src/unnamed/part_000, the viewers route).       *)
(***************************************************************************)
VARIABLES
    activeViewers,    \* Map: viewer id -> timestamp of its last heartbeat
    presenceNow,      \* Date.now() of the presence route, in ms
    presenceResponse, \* the NextResponse of the last presence handler
    presenceOp        \* history: the last presence handler, its input, the map it found

presenceVars == <<activeViewers, presenceNow, presenceResponse, presenceOp>>

(***************************************************************************)
(* Pure functions (src/userscript.js, lines 77-88, 98-109 and 251-317): the *)
(* call under evaluation and the value it returned.                        *)
(***************************************************************************)
VARIABLES
    geoCall,          \* the function called and its arguments
    geoResult         \* the value the call returned

geoVars == <<geoCall, geoResult>>

(***************************************************************************)
(* Reporter state (src/userscript.js, lines 1-129) and the simulator it    *)
(* samples.                                                                *)
(***************************************************************************)
VARIABLES
    info,             \* flight info: active (reporting enabled), flt
    geofsRadarInfo,   \* localStorage item "geofsRadarInfo"
    instance,         \* geofs.aircraft.instance: exists, groundContact
    wasOnGround,      \* on-ground value of the previous sample
    takeoffTimeUTC,   \* takeoff timestamp, empty until the first record
    sockets,          \* readyState of every WebSocket constructed
    socket,           \* index in sockets of the socket variable
    wsReady,          \* the ready flag of the secondary channel
    wsTimers,         \* due times of the pending setTimeout(connectWS, 5000)
    reporterNow,      \* Date.now() of the reporter, in ms
    nextTick,         \* due time of the next setInterval tick
    lastTick,         \* what the last tick did: ran, pushes
    fetchState,       \* the promise of the latest fetch(API_URL, ...)
    posts,            \* number of fetch(API_URL, ...) calls made
    reporterOp,       \* history: the last step was a tick or another event
    samples,          \* history: on-ground value and time of every sample taken
    records,          \* history: number of changes of takeoffTimeUTC
    liftoffs          \* history: ground-to-airborne transitions of the vehicle

reporterVars == <<info, geofsRadarInfo, instance, wasOnGround, takeoffTimeUTC,
                  sockets, socket, wsReady, wsTimers, reporterNow, nextTick,
                  lastTick, fetchState, posts, reporterOp, samples, records,
                  liftoffs>>

vars == <<viewerVars, hubVars, presenceVars, geoVars, reporterVars>>

\* what the actions of one component leave alone
notViewerVars == <<hubVars, presenceVars, geoVars, reporterVars>>

notHubVars == <<viewerVars, presenceVars, geoVars, reporterVars>>

notPresenceVars == <<viewerVars, hubVars, geoVars, reporterVars>>

notGeoVars == <<viewerVars, hubVars, presenceVars, reporterVars>>

notReporterVars == <<viewerVars, hubVars, presenceVars, geoVars>>

NoError == [kind |-> "none", ms |-> 0]

\* Date.now() values a message handler may observe
Clock == {8, 9}

\* aircraft entries of a stream message; ts = 0 stands for an absent/falsy ts
Entry(c, t) == [callsign |-> c, ts |-> t]

AircraftLists ==
    { <<>>,
      <<Entry("AA1", 0)>>,
      <<Entry("AA1", 5)>>,
      <<Entry("AA1", 5), Entry("BB2", 0)>> }

\* event.data of a stream message: text that JSON.parse rejects, an object
\* without an aircraft array, or an object with one
Messages ==
    { [kind |-> "malformed", aircraft |-> <<>>],
      [kind |-> "noarray", aircraft |-> <<>>] }
    \cup { [kind |-> "array", aircraft |-> l] : l \in AircraftLists }

RECURSIVE Pow2(_)
Pow2(n) == IF n = 0 THEN 1 ELSE 2 * Pow2(n - 1)

Min(a, b) == IF a < b THEN a ELSE b

\* the backoff without its 30 s cap
backoffTimeNoCap(attempts) == 1000 * Pow2(attempts)

\* page.tsx:158-161
backoffTime(attempts) == Min(1000 * Pow2(attempts), 30000)

\* EventSource.close(): readyState becomes CLOSED; closing twice is a no-op
CloseSource(srcs, e) == IF e = 0 THEN srcs ELSE [srcs EXCEPT ![e] = "closed"]

Live(e) == sources[e] # "closed"

LiveSources == { e \in 1..Len(sources) : Live(e) }

\* a handler that keeps the entries it has for callsigns the message lacks
processedAircraftMerging(data, now) ==
    IF data.kind = "noarray" THEN aircrafts
    ELSE SelectSeq(aircrafts,
                   LAMBDA old : \A i \in 1..Len(data.aircraft) :
                                    data.aircraft[i].callsign # old.callsign)
         \o [i \in 1..Len(data.aircraft) |->
                [data.aircraft[i] EXCEPT !.ts = IF @ = 0 THEN now ELSE @]]

\* no stream message was handled in the last step
NoDelivery == [handled |-> FALSE, data |-> [kind |-> "none", aircraft |-> <<>>],
               now |-> 0]

\* page.tsx:139-143: data.aircraft?.map(ac => ({...ac, ts: ac.ts || Date.now()})) || []
processedAircraft(data, now) ==
    IF data.kind = "noarray" THEN <<>>
    ELSE [i \in 1..Len(data.aircraft) |->
            [data.aircraft[i] EXCEPT !.ts = IF @ = 0 THEN now ELSE @]]

\* page.tsx:117-126: connectToStream up to the construction of the EventSource
\* (the three handlers are the actions OnOpen, OnMessage, OnError below)
connectToStream ==
    /\ sources' = Append(CloseSource(sources, eventSourceRef), "connecting")
    /\ eventSourceRef' = Len(sources) + 1
    /\ connectionStatus' = "connecting"

\* page.tsx:173-175: the effect runs fetchAirports() and connectToStream()
Mount ==
    /\ phase = "init"
    /\ phase' = "mounted"
    /\ connectToStream
    /\ UNCHANGED <<timers, timersSet, reconnectTimeoutRef, reconnectAttempts,
                   error, aircrafts, isLoading, errsSinceOpen, failsBeforeOpen>>
    /\ delivered' = NoDelivery
    /\ UNCHANGED notViewerVars

\* an open handler that forgets to reset the retry counter
OnOpenNoReset(e) ==
    /\ sources[e] = "connecting"
    /\ sources' = [sources EXCEPT ![e] = "open"]
    /\ connectionStatus' = "connected"
    /\ error' = NoError
    /\ errsSinceOpen' = 0
    /\ failsBeforeOpen' = errsSinceOpen
    /\ UNCHANGED <<phase, eventSourceRef, timers, timersSet, reconnectAttempts,
                   reconnectTimeoutRef, aircrafts, isLoading>>
    /\ delivered' = NoDelivery
    /\ UNCHANGED notViewerVars

\* page.tsx:128-133: the open event of source e
OnOpen(e) ==
    /\ sources[e] = "connecting"
    /\ sources' = [sources EXCEPT ![e] = "open"]
    /\ connectionStatus' = "connected"
    /\ error' = NoError
    /\ reconnectAttempts' = 0
    /\ errsSinceOpen' = 0
    /\ failsBeforeOpen' = errsSinceOpen
    /\ UNCHANGED <<phase, eventSourceRef, timers, timersSet,
                   reconnectTimeoutRef, aircrafts, isLoading>>
    /\ delivered' = NoDelivery
    /\ UNCHANGED notViewerVars

\* page.tsx:135-151: a message event of source e
OnMessage(e, data, now) ==
    /\ sources[e] = "open"
    /\ IF data.kind = "malformed"
       THEN UNCHANGED <<aircrafts, isLoading, error>>
       ELSE /\ aircrafts' = processedAircraft(data, now)
            /\ isLoading' = FALSE
            /\ error' = NoError
    /\ UNCHANGED <<phase, sources, eventSourceRef, timers, timersSet,
                   reconnectTimeoutRef, reconnectAttempts, connectionStatus,
                   errsSinceOpen, failsBeforeOpen>>
    /\ delivered' = [handled |-> TRUE, data |-> data, now |-> now]
    /\ UNCHANGED notViewerVars

\* an error handler that leaves the failed channel open, so that the browser
\* retries it and it can fail again
OnErrorNoClose(e) ==
    /\ Live(e)
    /\ Len(sources) < MaxSources
    /\ timersSet < MaxSources
    /\ connectionStatus' = "disconnected"
    /\ reconnectAttempts' = reconnectAttempts + 1
    /\ error' = [kind |-> "lost", ms |-> backoffTime(reconnectAttempts)]
    /\ timersSet' = timersSet + 1
    /\ timers' = timers \cup
                   {[id |-> timersSet + 1, delay |-> backoffTime(reconnectAttempts)]}
    /\ reconnectTimeoutRef' = timersSet + 1
    /\ errsSinceOpen' = errsSinceOpen + 1
    /\ UNCHANGED <<phase, sources, eventSourceRef, aircrafts, isLoading,
                   failsBeforeOpen>>
    /\ delivered' = NoDelivery
    /\ UNCHANGED notViewerVars

\* an error handler that reports the loss and schedules no reconnect
OnErrorNoTimer(e) ==
    /\ Live(e)
    /\ Len(sources) < MaxSources
    /\ connectionStatus' = "disconnected"
    /\ sources' = CloseSource(sources, e)
    /\ reconnectAttempts' = reconnectAttempts + 1
    /\ error' = [kind |-> "lost", ms |-> backoffTime(reconnectAttempts)]
    /\ errsSinceOpen' = errsSinceOpen + 1
    /\ UNCHANGED <<phase, eventSourceRef, timers, timersSet, reconnectTimeoutRef,
                   aircrafts, isLoading, failsBeforeOpen>>
    /\ delivered' = NoDelivery
    /\ UNCHANGED notViewerVars

\* page.tsx:153-170: the error event of source e (a source that is not closed:
\* a closed EventSource dispatches no events)
OnError(e) ==
    /\ Live(e)
    /\ Len(sources) < MaxSources
    /\ connectionStatus' = "disconnected"
    /\ sources' = CloseSource(sources, e)
    /\ reconnectAttempts' = reconnectAttempts + 1
    /\ error' = [kind |-> "lost", ms |-> backoffTime(reconnectAttempts)]
    /\ timersSet' = timersSet + 1
    /\ timers' = timers \cup
                   {[id |-> timersSet + 1, delay |-> backoffTime(reconnectAttempts)]}
    /\ reconnectTimeoutRef' = timersSet + 1
    /\ errsSinceOpen' = errsSinceOpen + 1
    /\ UNCHANGED <<phase, eventSourceRef, aircrafts, isLoading, failsBeforeOpen>>
    /\ delivered' = NoDelivery
    /\ UNCHANGED notViewerVars

\* a timeout callback that only logs and never reconnects
TimerFireNoConnect(t) ==
    /\ t \in timers
    /\ timers' = timers \ {t}
    /\ UNCHANGED <<phase, sources, eventSourceRef, connectionStatus, timersSet,
                   reconnectTimeoutRef, reconnectAttempts, error, aircrafts,
                   isLoading, errsSinceOpen, failsBeforeOpen>>
    /\ delivered' = NoDelivery
    /\ UNCHANGED notViewerVars

\* page.tsx:166-169: the timeout callback of timer t
TimerFire(t) ==
    /\ t \in timers
    /\ timers' = timers \ {t}
    /\ connectToStream
    /\ UNCHANGED <<phase, timersSet, reconnectTimeoutRef, reconnectAttempts,
                   error, aircrafts, isLoading, errsSinceOpen, failsBeforeOpen>>
    /\ delivered' = NoDelivery
    /\ UNCHANGED notViewerVars

\* a cleanup that closes the channel and leaves the reconnect timer pending
TeardownNoClear ==
    /\ phase = "mounted"
    /\ phase' = "torndown"
    /\ sources' = CloseSource(sources, eventSourceRef)
    /\ UNCHANGED <<eventSourceRef, timers, timersSet, reconnectTimeoutRef,
                   reconnectAttempts, connectionStatus, error, aircrafts,
                   isLoading, errsSinceOpen, failsBeforeOpen>>
    /\ delivered' = NoDelivery
    /\ UNCHANGED notViewerVars

\* page.tsx:177-184: the effect's cleanup
Teardown ==
    /\ phase = "mounted"
    /\ phase' = "torndown"
    /\ sources' = CloseSource(sources, eventSourceRef)
    /\ timers' = { t \in timers : t.id # reconnectTimeoutRef }
    /\ UNCHANGED <<eventSourceRef, timersSet, reconnectTimeoutRef,
                   reconnectAttempts, connectionStatus, error, aircrafts,
                   isLoading, errsSinceOpen, failsBeforeOpen>>
    /\ delivered' = NoDelivery
    /\ UNCHANGED notViewerVars

InitViewer ==
    /\ phase = "init"
    /\ sources = <<>>
    /\ eventSourceRef = 0
    /\ timers = {}
    /\ timersSet = 0
    /\ reconnectTimeoutRef = 0
    /\ reconnectAttempts = 0
    /\ connectionStatus = "connecting"
    /\ error = NoError
    /\ aircrafts = <<>>
    /\ isLoading = TRUE
    /\ errsSinceOpen = 0
    /\ failsBeforeOpen = 0
    /\ delivered = NoDelivery

NextViewer ==
    \/ Mount
    \/ \E e \in 1..Len(sources) : OnOpen(e)
    \/ \E e \in 1..Len(sources), d \in Messages, now \in Clock : OnMessage(e, d, now)
    \/ \E e \in 1..Len(sources) : OnError(e)
    \/ \E t \in timers : TimerFire(t)
    \/ Teardown

(***************************************************************************)
(* Registry, ingestion, removal and broadcast hub.                         *)
(***************************************************************************)
\* expiry window of an aircraft entry, in ms
AIRCRAFT_TTL == 30000

\* latest value of the server clock the model reaches
MaxNow == 60001

\* viewer connections the hub may hold at once
MaxConns == 3

\* steps of the server clock between two handlers
Delays == {30000, 30001}

AircraftIds == {"AA1", "BB2"}

\* identifiers a removal may name: none, a known aircraft, one never reported
RemovalIds == {""} \cup AircraftIds \cup {"ZZ9"}

KeyOrder == <<"AA1", "BB2", "ZZ9">>

Headings == {90, 180}

Num(v) == [finite |-> TRUE, v |-> v]

NotANumber == [finite |-> FALSE, v |-> 0]

\* position reports a producer may post
Reports ==
    [id : AircraftIds, lat : {Num(51)}, heading : Headings]
    \cup { [id |-> "", lat |-> Num(51), heading |-> 90],
           [id |-> "AA1", lat |-> NotANumber, heading |-> 180] }

Conns == 1..MaxConns

NoResponse == [status |-> 0, message |-> ""]

\* op: the handler; id, heading, conn: its input; existed, prior: the entry the
\* handler found under id; stale: the entries older than the TTL when it ran;
\* failed: the connections whose push failed
NoOp == [op |-> "none", id |-> "", heading |-> 0, conn |-> 0,
         existed |-> FALSE, prior |-> 0, stale |-> {}, failed |-> {}]

NoSent == [c \in {} |-> <<>>]

\* an entry is stale once its lastSeen is older than the expiry window
Expired(entry, t) == t - entry.lastSeen > AIRCRAFT_TTL

\* Registry.upsert: the report is valid when it has an identifier and finite
\* coordinates
ValidReport(r) == r.id # "" /\ r.lat.finite

\* an upsert that keeps the entry it finds and only refreshes its lastSeen
UpsertKeepFirst(store, r, t) ==
    IF r.id \in DOMAIN store
    THEN [store EXCEPT ![r.id].lastSeen = t]
    ELSE [k \in DOMAIN store \cup {r.id} |->
            IF k = r.id
            THEN [id |-> r.id, lat |-> r.lat.v, heading |-> r.heading, lastSeen |-> t]
            ELSE store[k]]

\* Registry.upsert: replaces or inserts the entry keyed by the identifier and
\* sets lastSeen = now
Upsert(store, r, t) ==
    [k \in DOMAIN store \cup {r.id} |->
        IF k = r.id
        THEN [id |-> r.id, lat |-> r.lat.v, heading |-> r.heading, lastSeen |-> t]
        ELSE store[k]]

\* a sweep that forgets to remove anything
ExpirySweepNone(store, t) == store

\* the expiry sweep: entries older than the TTL are removed outright
ExpirySweep(store, t) ==
    [k \in { j \in DOMAIN store : ~Expired(store[j], t) } |-> store[k]]

\* a snapshot that lists every entry of the registry, stale or not
SnapshotAll(store, t) ==
    LET present(k) == k \in DOMAIN store
        keys == SelectSeq(KeyOrder, present)
    IN  [i \in 1..Len(keys) |-> store[keys[i]]]

\* Registry.snapshot: the entries whose lastSeen is within the expiry window
Snapshot(store, t) ==
    LET fresh(k) == k \in DOMAIN store /\ ~Expired(store[k], t)
        keys == SelectSeq(KeyOrder, fresh)
    IN  [i \in 1..Len(keys) |-> store[keys[i]]]

\* the wire format of the subscription channel: {aircraft: AircraftState[]}
Message(snapshot) == [aircraft |-> snapshot]

\* a removal whose existence test is inverted
DeleteAircraftInverted(store, aircraftId) ==
    IF aircraftId = ""
    THEN [store |-> store,
          response |-> [status |-> 400, message |-> "Aircraft ID required"]]
    ELSE [store |-> [k \in DOMAIN store \ {aircraftId} |-> store[k]],
          response |-> [status |-> 200,
                        message |-> IF aircraftId \notin DOMAIN store
                                    THEN "Aircraft cleared"
                                    ELSE "Aircraft not found"]]

\* a removal without the test for a missing identifier
DeleteAircraftUnchecked(store, aircraftId) ==
    [store |-> [k \in DOMAIN store \ {aircraftId} |-> store[k]],
     response |-> [status |-> 200,
                   message |-> IF aircraftId \in DOMAIN store
                               THEN "Aircraft cleared"
                               ELSE "Aircraft not found"]]

\* part_000:4-33: DELETE, as a function of the registry and the path parameter
DeleteAircraft(store, aircraftId) ==
    IF aircraftId = ""
    THEN [store |-> store,
          response |-> [status |-> 400, message |-> "Aircraft ID required"]]
    ELSE [store |-> [k \in DOMAIN store \ {aircraftId} |-> store[k]],
          response |-> [status |-> 200,
                        message |-> IF aircraftId \in DOMAIN store
                                    THEN "Aircraft cleared"
                                    ELSE "Aircraft not found"]]

\* the removal endpoint
DELETE(aircraftId) ==
    /\ activeAircraft' = DeleteAircraft(activeAircraft, aircraftId).store
    /\ response' = DeleteAircraft(activeAircraft, aircraftId).response
    /\ sent' = NoSent
    /\ lastOp' = [NoOp EXCEPT !.op = "DELETE", !.id = aircraftId,
                              !.existed = aircraftId \in DOMAIN activeAircraft]
    /\ UNCHANGED <<serverNow, connections, broken>>
    /\ UNCHANGED notHubVars

\* the ingestion endpoint: one report per call, absorbed through upsert or
\* rejected with a client error
Ingest(r) ==
    /\ IF ValidReport(r)
       THEN /\ activeAircraft' = Upsert(activeAircraft, r, serverNow)
            /\ response' = [status |-> 200, message |-> "ok"]
       ELSE /\ activeAircraft' = activeAircraft
            /\ response' = [status |-> 400, message |-> "invalid report"]
    /\ sent' = NoSent
    /\ lastOp' = [NoOp EXCEPT !.op = "ingest", !.id = r.id, !.heading = r.heading,
                              !.existed = r.id \in DOMAIN activeAircraft,
                              !.prior = IF r.id \in DOMAIN activeAircraft
                                        THEN activeAircraft[r.id].heading ELSE 0]
    /\ UNCHANGED <<serverNow, connections, broken>>
    /\ UNCHANGED notHubVars

\* a hub that registers the connection and leaves the first push to the next tick
ConnectNoSnapshot(store, conns, c, t) ==
    [connections |-> conns \cup {c}, sent |-> NoSent]

\* the hub on a new connection: added to the set and sent the current snapshot
ConnectViewer(store, conns, c, t) ==
    [connections |-> conns \cup {c},
     sent |-> [d \in {c} |-> Message(Snapshot(store, t))]]

\* a viewer subscribes to the push channel
Connect(c) ==
    /\ c \notin connections
    /\ connections' = ConnectViewer(activeAircraft, connections, c, serverNow).connections
    /\ sent' = ConnectViewer(activeAircraft, connections, c, serverNow).sent
    /\ response' = NoResponse
    /\ lastOp' = [NoOp EXCEPT !.op = "connect", !.conn = c]
    /\ UNCHANGED <<activeAircraft, serverNow, broken>>
    /\ UNCHANGED notHubVars

\* a viewer goes away; the hub learns of it when a push to it fails
ClientGone(c) ==
    /\ c \in connections \ broken
    /\ broken' = broken \cup {c}
    /\ sent' = NoSent
    /\ response' = NoResponse
    /\ lastOp' = [NoOp EXCEPT !.op = "gone", !.conn = c]
    /\ UNCHANGED <<activeAircraft, serverNow, connections>>
    /\ UNCHANGED notHubVars

\* a tick whose first failing push aborts the pushes to the connections after it
BroadcastTickAborting(store, conns, failing, t) ==
    LET swept == ExpirySweep(store, t)
        firstBad == IF failing = {} THEN MaxConns + 2
                    ELSE CHOOSE c \in failing : \A d \in failing : c <= d
    IN  [store |-> swept,
         connections |-> conns \ failing,
         sent |-> [c \in { d \in conns \ failing : d < firstBad } |->
                     Message(Snapshot(swept, t))]]

\* one broadcast tick: expiry sweep, snapshot, push to every connection; a
\* connection whose push fails is removed, the others are served
BroadcastTick(store, conns, failing, t) ==
    LET swept == ExpirySweep(store, t)
    IN  [store |-> swept,
         connections |-> conns \ failing,
         sent |-> [c \in conns \ failing |-> Message(Snapshot(swept, t))]]

Broadcast ==
    /\ activeAircraft' = BroadcastTick(activeAircraft, connections, broken, serverNow).store
    /\ connections' = BroadcastTick(activeAircraft, connections, broken, serverNow).connections
    /\ sent' = BroadcastTick(activeAircraft, connections, broken, serverNow).sent
    /\ broken' = {}
    /\ response' = NoResponse
    /\ lastOp' = [NoOp EXCEPT !.op = "tick", !.failed = broken,
                              !.stale = { k \in DOMAIN activeAircraft :
                                            Expired(activeAircraft[k], serverNow) }]
    /\ UNCHANGED serverNow
    /\ UNCHANGED notHubVars

\* the server clock advances
AdvanceTime(d) ==
    /\ serverNow + d <= MaxNow
    /\ serverNow' = serverNow + d
    /\ sent' = NoSent
    /\ response' = NoResponse
    /\ lastOp' = [NoOp EXCEPT !.op = "time"]
    /\ UNCHANGED <<activeAircraft, connections, broken>>
    /\ UNCHANGED notHubVars

InitHub ==
    /\ activeAircraft = [k \in {} |-> 0]
    /\ serverNow = 0
    /\ connections = {}
    /\ broken = {}
    /\ sent = NoSent
    /\ response = NoResponse
    /\ lastOp = NoOp

NextHub ==
    \/ \E r \in Reports : Ingest(r)
    \/ \E id \in RemovalIds : DELETE(id)
    \/ \E c \in Conns : Connect(c)
    \/ \E c \in Conns : ClientGone(c)
    \/ Broadcast
    \/ \E d \in Delays : AdvanceTime(d)

(***************************************************************************)
(* Viewer presence tracker (src/unnamed/part_000, lines 46-113; the second *)
(* route, lines 114-161, is the same code over a map of its own).          *)
(***************************************************************************)
\* part_000:55
VIEWER_TIMEOUT == 30000

\* latest value of the presence route's clock the model reaches
MaxPresenceNow == 60001

\* time between two presence requests
HeartbeatGaps == {30000, 30001}

\* values of `viewer_${Math.random().toString(36).substr(2, 9)}`
GeneratedIds == {"viewer_a", "viewer_b"}

\* the body of a POST: text that request.json() rejects, the JSON null (its
\* destructuring throws), a JSON scalar (its viewerId is undefined), or an
\* object with or without a viewerId string
PostBodies ==
    { [kind |-> "malformed", hasId |-> FALSE, viewerId |-> ""],
      [kind |-> "null", hasId |-> FALSE, viewerId |-> ""],
      [kind |-> "scalar", hasId |-> FALSE, viewerId |-> ""],
      [kind |-> "object", hasId |-> FALSE, viewerId |-> ""],
      [kind |-> "object", hasId |-> TRUE, viewerId |-> ""],
      [kind |-> "object", hasId |-> TRUE, viewerId |-> "v1"],
      [kind |-> "object", hasId |-> TRUE, viewerId |-> "viewer_a"] }

NoBody == [kind |-> "none", hasId |-> FALSE, viewerId |-> ""]

NullTime == [null |-> TRUE, t |-> 0]

TimeOf(t) == [null |-> FALSE, t |-> t]

NoPresenceResponse ==
    [status |-> 0, success |-> FALSE, viewerId |-> "", activeViewers |-> 0,
     hasViewers |-> FALSE, lastActivity |-> NullTime]

EmptyViewers == [id \in {} |-> 0]

Size(map) == Cardinality(DOMAIN map)

\* a cleanup that removes nothing
cleanupNothing(map, t) == map

\* a cleanup that also drops the sessions exactly VIEWER_TIMEOUT old
cleanupAtTimeout(map, t) ==
    [id \in { i \in DOMAIN map : ~(t - map[i] >= VIEWER_TIMEOUT) } |-> map[id]]

\* part_000:57-64
cleanupExpiredViewers(map, t) ==
    [id \in { i \in DOMAIN map : ~(t - map[i] > VIEWER_TIMEOUT) } |-> map[id]]

\* a GET that always reports a last activity
GetViewersAlwaysActive(map, t) ==
    LET swept == cleanupExpiredViewers(map, t)
    IN  [map |-> swept,
         response |-> [NoPresenceResponse EXCEPT
                         !.status = 200,
                         !.activeViewers = Size(swept),
                         !.hasViewers = Size(swept) > 0,
                         !.lastActivity = TimeOf(t)]]

\* part_000:66-76: GET, as a function of the map and the clock
GetViewers(map, t) ==
    LET swept == cleanupExpiredViewers(map, t)
    IN  [map |-> swept,
         response |-> [NoPresenceResponse EXCEPT
                         !.status = 200,
                         !.activeViewers = Size(swept),
                         !.hasViewers = Size(swept) > 0,
                         !.lastActivity = IF Size(swept) > 0 THEN TimeOf(t)
                                          ELSE NullTime]]

\* part_000:81: const { viewerId } = body, undefined unless the object has one
ViewerIdOf(body) == IF body.kind = "object" /\ body.hasId THEN body.viewerId ELSE ""

\* a POST that opens a new session whatever id it is given
PostViewerAlwaysNew(map, body, generated, t) ==
    IF body.kind \in {"malformed", "null"}
    THEN [map |-> map, response |-> [NoPresenceResponse EXCEPT !.status = 400]]
    ELSE LET swept == cleanupExpiredViewers(map, t)
             after == [i \in DOMAIN swept \cup {generated} |->
                         IF i = generated THEN t ELSE swept[i]]
         IN  [map |-> after,
              response |-> [NoPresenceResponse EXCEPT
                              !.status = 200,
                              !.success = TRUE,
                              !.viewerId = generated,
                              !.activeViewers = Size(after)]]

\* part_000:78-106: POST, as a function of the map, the body, the random id
\* and the clock; viewerId || generated takes the generated id for an absent
\* or empty viewerId
\* variant of PostViewer whose expiry sweep runs before the body is read
PostViewerSweepFirst(map, body, generated, t) ==
    LET swept == cleanupExpiredViewers(map, t)
    IN  IF body.kind \in {"malformed", "null"}
        THEN [map |-> swept, response |-> [NoPresenceResponse EXCEPT !.status = 400]]
        ELSE LET id == IF ViewerIdOf(body) # "" THEN ViewerIdOf(body) ELSE generated
                 after == [i \in DOMAIN swept \cup {id} |->
                             IF i = id THEN t ELSE swept[i]]
             IN  [map |-> after,
                  response |-> [NoPresenceResponse EXCEPT
                                  !.status = 200,
                                  !.success = TRUE,
                                  !.viewerId = id,
                                  !.activeViewers = Size(after)]]

PostViewer(map, body, generated, t) ==
    IF body.kind \in {"malformed", "null"}
    THEN [map |-> map, response |-> [NoPresenceResponse EXCEPT !.status = 400]]
    ELSE LET swept == cleanupExpiredViewers(map, t)
             id == IF ViewerIdOf(body) # "" THEN ViewerIdOf(body) ELSE generated
             after == [i \in DOMAIN swept \cup {id} |->
                         IF i = id THEN t ELSE swept[i]]
         IN  [map |-> after,
              response |-> [NoPresenceResponse EXCEPT
                              !.status = 200,
                              !.success = TRUE,
                              !.viewerId = id,
                              !.activeViewers = Size(after)]]

GET ==
    /\ activeViewers' = GetViewers(activeViewers, presenceNow).map
    /\ presenceResponse' = GetViewers(activeViewers, presenceNow).response
    /\ presenceOp' = [op |-> "GET", body |-> NoBody, before |-> activeViewers]
    /\ UNCHANGED presenceNow
    /\ UNCHANGED notPresenceVars

POST(body, generated) ==
    /\ activeViewers' = PostViewer(activeViewers, body, generated, presenceNow).map
    /\ presenceResponse' =
           PostViewer(activeViewers, body, generated, presenceNow).response
    /\ presenceOp' = [op |-> "POST", body |-> body, before |-> activeViewers]
    /\ UNCHANGED presenceNow
    /\ UNCHANGED notPresenceVars

\* the clock of the presence route advances
PresenceTime(d) ==
    /\ presenceNow + d <= MaxPresenceNow
    /\ presenceNow' = presenceNow + d
    /\ presenceResponse' = NoPresenceResponse
    /\ presenceOp' = [op |-> "time", body |-> NoBody, before |-> activeViewers]
    /\ UNCHANGED activeViewers
    /\ UNCHANGED notPresenceVars

InitPresence ==
    /\ activeViewers = EmptyViewers
    /\ presenceNow = 0
    /\ presenceResponse = NoPresenceResponse
    /\ presenceOp = [op |-> "none", body |-> NoBody, before |-> EmptyViewers]

NextPresence ==
    \/ GET
    \/ \E body \in PostBodies, g \in GeneratedIds : POST(body, g)
    \/ \E d \in HeartbeatGaps : PresenceTime(d)

(***************************************************************************)
(* Geodesy helpers of the radar map (src/userscript.js, lines 251-317).    *)
(* Coordinates are in tenths of a degree, distances in metres, angles in   *)
(* thousandths of a degree.                                                *)
(***************************************************************************)
\* the coordinate pairs <<lat, lon>> the helpers are evaluated on
GeoPoints ==
    << <<0, 0>>, <<10, 10>>, <<20, 20>>, <<10, 0>>, <<0, 1>>,
       <<10, 11>>, <<20, 21>>, <<-10, -10>>, <<50, 50>>, <<14, 14>> >>

PointIndex(lat, lon) ==
    CHOOSE i \in 1..Len(GeoPoints) : GeoPoints[i] = <<lat, lon>>

\* R * c of the haversine formula (R = 6371 km) for each pair of GeoPoints,
\* rounded to the metre; row = first point, column = second point
HaversineTable ==
    <<
      <<0, 157249, 314475, 111195, 11119, 165299, 322431, 157249, 785767, 220144>>,
      <<157249, 0, 157225, 111178, 149594, 11118, 165271, 314499, 628518, 62894>>,
      <<314475, 157225, 0, 248569, 306715, 149574, 11113, 471724, 471293, 94331>>,
      <<111195, 111178, 248569, 0, 111749, 122296, 258558, 248637, 711311, 161869>>,
      <<11119, 149594, 306715, 111749, 0, 157249, 314475, 165299, 777959, 212428>>,
      <<165299, 11118, 149574, 122296, 157249, 0, 157225, 322457, 620724, 55593>>,
      <<322431, 165271, 11113, 258558, 314475, 157225, 0, 479649, 463520, 102490>>,
      <<157249, 314499, 471724, 248637, 165299, 322457, 479649, 0, 943016, 377393>>,
      <<785767, 628518, 471293, 711311, 777959, 620724, 463520, 943016, 0, 565624>>,
      <<220144, 62894, 94331, 161869, 212428, 55593, 102490, 377393, 565624, 0>>
    >>

\* toDeg(Math.atan2(y, x)) of the forward azimuth for each pair of GeoPoints,
\* rounded to the thousandth of a degree; row = first point, column = second
AzimuthTable ==
    <<
      <<0, 44996, 44983, 0, 90000, 47722, 46379, -135004, 44891, 44991>>,
      <<-134996, 0, 44978, -89991, -138009, 89999, 47703, -134996, 44873, 44990>>,
      <<-134983, -134996, 0, -116544, -136453, -138010, 89998, -134978, 44865, -135003>>,
      <<180000, 89991, 63404, 0, 174289, 89990, 64504, -153433, 51194, 74037>>,
      <<-90000, 41983, 43514, -5710, 0, 44996, 44983, -132278, 44314, 42871>>,
      <<-132269, -89999, 41967, -89990, -134996, 0, 44978, -133598, 44150, 36861>>,
      <<-133584, -132268, -89998, -115441, -134983, -134996, 0, -134038, 43896, -130603>>,
      <<45004, 45004, 44996, 26567, 47731, 46402, 45935, 0, 44917, 45002>>,
      <<-134891, -134917, -134952, -128544, -135472, -135645, -135927, -134873, 0, -134930>>,
      <<-134991, -135002, 44979, -105933, -137113, -143133, 49376, -134990, 44869, 0>>
    >>

calculateDistance(lat1, lon1, lat2, lon2) ==
    HaversineTable[PointIndex(lat1, lon1)][PointIndex(lat2, lon2)]

\* the angle theta of calculateBearing, before normalisation
theta(lat1, lon1, lat2, lon2) ==
    AzimuthTable[PointIndex(lat1, lon1)][PointIndex(lat2, lon2)]

\* the remainder operator % of JavaScript: the result has the dividend's sign
JsRem(a, n) == IF a >= 0 THEN a % n ELSE 0 - ((0 - a) % n)

calculateBearingNoShift(lat1, lon1, lat2, lon2) ==
    JsRem(theta(lat1, lon1, lat2, lon2), 360000)

calculateBearing(lat1, lon1, lat2, lon2) ==
    JsRem(theta(lat1, lon1, lat2, lon2) + 360000, 360000)

\* a waypoint of a flight plan; a coordinate may be missing (undefined/null)
Wp(lat, lon) == [hasLat |-> TRUE, lat |-> lat, hasLon |-> TRUE, lon |-> lon]

WaypointA == Wp(0, 0)

WaypointB == Wp(10, 10)

WaypointC == Wp(20, 20)

\* on the prime meridian: longitude 0, latitude not 0
WaypointY == Wp(10, 0)

WaypointNoLat == [hasLat |-> FALSE, lat |-> 0, hasLon |-> TRUE, lon |-> 10]

WaypointNoLon == [hasLat |-> TRUE, lat |-> 10, hasLon |-> FALSE, lon |-> 0]

Waypoints ==
    {WaypointA, WaypointB, WaypointC, WaypointY, WaypointNoLat, WaypointNoLon}

WaypointLists == UNION {[1..n -> Waypoints] : n \in 0..MaxWaypoints}

\* aircraft positions: next to A, B and C, and further than 50 km from all
AircraftPositions ==
    {[lat |-> 0, lon |-> 1], [lat |-> 10, lon |-> 11], [lat |-> 20, lon |-> 21],
     [lat |-> -10, lon |-> -10], [lat |-> 50, lon |-> 50], [lat |-> 14, lon |-> 14]}

\* !wp.lat, !wp.lon: a missing coordinate and the number 0 are both falsy
Falsy(has, v) == ~has \/ v = 0

Infinity == [finite |-> FALSE, m |-> 0]

Below(d, min) == ~min.finite \/ d < min.m

\* the for loop of findActiveWaypointIndex from index i (0-based) on
RECURSIVE ClosestLoop(_, _, _, _, _)
ClosestLoop(aircraft, waypoints, i, closestWaypointIndex, minDistanceKm) ==
    IF i >= Len(waypoints)
    THEN [closestWaypointIndex |-> closestWaypointIndex,
          minDistanceKm |-> minDistanceKm]
    ELSE LET wp == waypoints[i + 1]
         IN  IF Falsy(wp.hasLat, wp.lat) \/ Falsy(wp.hasLon, wp.lon)
             THEN ClosestLoop(aircraft, waypoints, i + 1,
                              closestWaypointIndex, minDistanceKm)
             ELSE LET distance ==
                          calculateDistance(aircraft.lat, aircraft.lon,
                                            wp.lat, wp.lon)
                  IN  IF Below(distance, minDistanceKm)
                      THEN ClosestLoop(aircraft, waypoints, i + 1, i,
                                       [finite |-> TRUE, m |-> distance])
                      ELSE ClosestLoop(aircraft, waypoints, i + 1,
                                       closestWaypointIndex, minDistanceKm)

\* an advance that does not stop at the last waypoint
findActiveWaypointIndexPastLast(aircraft, waypoints) ==
    IF Len(waypoints) < 1
    THEN -1
    ELSE LET found == ClosestLoop(aircraft, waypoints, 0, -1, Infinity)
         IN  IF found.minDistanceKm.finite /\ found.minDistanceKm.m < 50000
             THEN found.closestWaypointIndex + 1
             ELSE found.closestWaypointIndex

findActiveWaypointIndex(aircraft, waypoints) ==
    IF Len(waypoints) < 1
    THEN -1
    ELSE LET found == ClosestLoop(aircraft, waypoints, 0, -1, Infinity)
             closestWaypointIndex == found.closestWaypointIndex
             minDistanceKm == found.minDistanceKm
         IN  IF /\ minDistanceKm.finite
                /\ minDistanceKm.m < 50000
                /\ closestWaypointIndex < Len(waypoints) - 1
             THEN closestWaypointIndex + 1
             ELSE closestWaypointIndex

(***************************************************************************)
(* The altitude fields of a report (src/userscript.js, lines 77-88 and     *)
(* 98-109). Feet are counted in units of 10^-7 ft, so that the products    *)
(* with 3.28084 and 3.2808399 are exact.                                   *)
(***************************************************************************)
PerFoot == 10000000

\* 3.28084, the factor of line 99
FEET_PER_METRE_LLA == 32808400

\* 3.2808399, the factor of line 83
FEET_PER_METRE_COLLISION == 32808399

\* JavaScript values: undefined, null, NaN and the numbers
JsUndefined == [type |-> "undefined", nan |-> FALSE, x |-> 0]

JsNull == [type |-> "null", nan |-> FALSE, x |-> 0]

JsNaN == [type |-> "number", nan |-> TRUE, x |-> 0]

JsNumber(x) == [type |-> "number", nan |-> FALSE, x |-> x]

\* a number of feet given in tenths of a foot
Tenths(n) == JsNumber(n * (PerFoot \div 10))

\* Math.round of a value counted in units of 10^-7: the nearest integer, a
\* half rounded up; NaN for undefined and NaN
MathRound(a) ==
    IF a.type = "number" /\ ~a.nan
    THEN JsNumber((a.x + PerFoot \div 2) \div PerFoot)
    ELSE JsNaN

\* a collision point: its worldPosition may be missing; z in metres
CollisionPoint(z) == [hasWorldPosition |-> TRUE, z |-> z]

BrokenCollisionPoint == [hasWorldPosition |-> FALSE, z |-> 0]

NoCollisionPoints == [defined |-> FALSE, points |-> <<>>]

CollisionPoints(points) == [defined |-> TRUE, points |-> points]

\* what the simulator holds when a report is built: inst.llaLocation[2] in
\* metres, geofs.animation.values.altitude and .groundElevationFeet in feet,
\* inst.collisionPoints
SimulatorValues ==
    [lla2 : {JsUndefined, JsNumber(0), JsNumber(20)},
     altitude : {JsUndefined, Tenths(655)},
     groundElevationFeet : {JsUndefined, Tenths(100)},
     collisionPoints :
         {NoCollisionPoints,
          CollisionPoints(<<CollisionPoint(0)>>),
          CollisionPoints(<<CollisionPoint(1), CollisionPoint(-2), CollisionPoint(0)>>),
          CollisionPoints(<<BrokenCollisionPoint, CollisionPoint(0)>>)}]

\* an estimate that takes a missing ground elevation for 0
calculateAGLGroundOptional(values) ==
    IF /\ values.altitude.type = "number"
       /\ values.collisionPoints.defined
       /\ Len(values.collisionPoints.points) >= 2
    THEN LET points == values.collisionPoints.points
             point == points[Len(points) - 1]
         IN  IF ~point.hasWorldPosition
             THEN JsNull
             ELSE MathRound(JsNumber(values.altitude.x
                                         - values.groundElevationFeet.x
                                         + point.z * FEET_PER_METRE_COLLISION))
    ELSE JsNull

\* function calculateAGL: the estimate in feet, or null; reading the
\* worldPosition of a point that has none throws, and the catch returns null
calculateAGL(values) ==
    IF /\ values.altitude.type = "number"
       /\ values.groundElevationFeet.type = "number"
       /\ values.collisionPoints.defined
       /\ Len(values.collisionPoints.points) >= 2
    THEN LET points == values.collisionPoints.points
             point == points[Len(points) - 1]
         IN  IF ~point.hasWorldPosition
             THEN JsNull
             ELSE MathRound(JsNumber(values.altitude.x
                                         - values.groundElevationFeet.x
                                         + point.z * FEET_PER_METRE_COLLISION))
    ELSE JsNull

\* lla[2] is truthy: a number other than 0 and NaN
Truthy(a) == a.type = "number" /\ ~a.nan /\ a.x # 0

\* const altMSL = lla[2] ? lla[2] * 3.28084 : geofs.animation.values.altitude;
altMSL(values) ==
    IF Truthy(values.lla2)
    THEN JsNumber(values.lla2.x * FEET_PER_METRE_LLA)
    ELSE values.altitude

\* the fields altAGL (line 100), alt and altMSL (lines 108-109) of a report
PayloadAltitude(values) ==
    LET altAGL == calculateAGL(values)
    IN  [altAGL |-> altAGL,
         alt |-> IF altAGL.type = "number" THEN altAGL ELSE MathRound(altMSL(values)),
         altMSL |-> MathRound(altMSL(values))]

\* drawFlightPlan: the indices of the waypoints that get the ActiveWaypointIcon;
\* a marker is made for the waypoints with truthy lat and lon only
ActiveMarkers(waypoints, activeWaypointIndex) ==
    {index \in 0..(Len(waypoints) - 1) :
        /\ ~Falsy(waypoints[index + 1].hasLat, waypoints[index + 1].lat)
        /\ ~Falsy(waypoints[index + 1].hasLon, waypoints[index + 1].lon)
        /\ index = activeWaypointIndex}

GeoCalls ==
    {[op |-> "findActiveWaypointIndex", aircraft |-> a, waypoints |-> w] :
         a \in AircraftPositions, w \in WaypointLists}
    \cup
    {[op |-> "payloadAltitude", values |-> v] : v \in SimulatorValues}
    \cup
    {[op |-> "calculateBearing", from |-> GeoPoints[i], to |-> GeoPoints[j]] :
         i \in 1..Len(GeoPoints), j \in 1..Len(GeoPoints)}

NoCall == [op |-> "none"]

NotReturned == [returned |-> FALSE, value |-> 0]

Returned(v) == [returned |-> TRUE, value |-> v]

FindActiveWaypoint ==
    /\ geoCall.op = "findActiveWaypointIndex"
    /\ geoResult' = Returned(findActiveWaypointIndex(geoCall.aircraft,
                                                     geoCall.waypoints))
    /\ UNCHANGED geoCall
    /\ UNCHANGED notGeoVars

Bearing ==
    /\ geoCall.op = "calculateBearing"
    /\ geoResult' = Returned(calculateBearing(geoCall.from[1], geoCall.from[2],
                                              geoCall.to[1], geoCall.to[2]))
    /\ UNCHANGED geoCall
    /\ UNCHANGED notGeoVars

\* the altitude fields of the payload built by the tick
Altitude ==
    /\ geoCall.op = "payloadAltitude"
    /\ geoResult' = Returned(PayloadAltitude(geoCall.values))
    /\ UNCHANGED geoCall
    /\ UNCHANGED notGeoVars

\* no helper is being evaluated
IdleGeo ==
    /\ geoCall = NoCall
    /\ geoResult = NotReturned

\* one call of a helper, its arguments drawn from the sets above
DrawGeo ==
    /\ geoCall \in GeoCalls
    /\ geoResult = NotReturned

NextGeo ==
    \/ FindActiveWaypoint
    \/ Bearing
    \/ Altitude

(***************************************************************************)
(* The reporter (src/userscript.js, lines 1-129).                          *)
(***************************************************************************)
SEND_INTERVAL_MS == 5000

\* delay of setTimeout(connectWS, 5000)
WS_RECONNECT_MS == 5000

FlightNumbers == {"", "AA123"}

\* inst.groundContact: a boolean, or undefined
GroundContacts == {"true", "false", "undefined"}

NoInstance == [exists |-> FALSE, groundContact |-> "undefined"]

\* the empty string of takeoffTimeUTC
NoTakeoffTime == [set |-> FALSE, ms |-> 0]

\* new Date().toISOString() at time t
toISOString(t) == [set |-> TRUE, ms |-> t]

NoPayload == [sent |-> FALSE, takeoffTime |-> NoTakeoffTime, flightNo |-> ""]

\* the fields of the payload that the reporter's state decides; alt and
\* altMSL depend on the sampled values alone (PayloadAltitude)
Payload(takeoffTime, flightNo) ==
    [sent |-> TRUE, takeoffTime |-> takeoffTime, flightNo |-> flightNo]

\* a tick that returned early; found is the state of the latest fetch as an
\* active tick finds it
NoTick == [ran |-> FALSE, post |-> NoPayload, ws |-> NoPayload, found |-> "none"]

\* inst.groundContact ?? true
OnGround(inst) == inst.groundContact # "false"

\* a stamp on every airborne sample, whatever the previous one was
TakeoffStampEveryAirborne(was, onGround, old, t) ==
    IF ~onGround THEN toISOString(t) ELSE old

\* if (wasOnGround && !onGround) takeoffTimeUTC = new Date().toISOString();
TakeoffStamp(was, onGround, old, t) ==
    IF was /\ ~onGround THEN toISOString(t) ELSE old

\* a push on the secondary channel whatever the ready flag says
WsPushAlways(ready, payload) == payload

\* if (wsReady) socket.send(JSON.stringify({ type: "position_update", ... }))
WsPush(ready, payload) == IF ready THEN payload ELSE NoPayload

\* a guard that looks at the flight info only
TickReturnsEarlyIfDisabled(inf, inst) == ~inf.active

\* if (!info.active || !geofs?.aircraft?.instance) return;
TickReturnsEarly(inf, inst) == ~inf.active \/ ~inst.exists

\* the setInterval callback
Tick ==
    /\ reporterNow = nextTick
    /\ nextTick' = nextTick + SEND_INTERVAL_MS
    /\ reporterOp' = "tick"
    /\ IF TickReturnsEarly(info, instance)
       THEN /\ lastTick' = NoTick
            /\ UNCHANGED <<wasOnGround, takeoffTimeUTC, samples, records,
                           fetchState, posts>>
       ELSE LET onGround == OnGround(instance)
                stamp == TakeoffStamp(wasOnGround, onGround, takeoffTimeUTC,
                                      reporterNow)
                payload == Payload(stamp, info.flt)
            IN  /\ takeoffTimeUTC' = stamp
                /\ wasOnGround' = onGround
                /\ lastTick' = [ran |-> TRUE,
                                post |-> payload,
                                ws |-> WsPush(wsReady, payload),
                                found |-> fetchState]
                /\ fetchState' = "pending"
                /\ posts' = posts + 1
                /\ samples' = Append(samples,
                                     [onGround |-> onGround, at |-> reporterNow])
                /\ records' = records + (IF stamp # takeoffTimeUTC THEN 1 ELSE 0)
    /\ UNCHANGED <<info, geofsRadarInfo, instance, sockets, socket, wsReady,
                   wsTimers, reporterNow, liftoffs>>
    /\ UNCHANGED notReporterVars

\* click on #gr-toggle
ToggleClick ==
    /\ info' = [info EXCEPT !.active = ~info.active]
    /\ geofsRadarInfo' = [geofsRadarInfo EXCEPT !.active = ~info.active]
    /\ reporterOp' = "event"
    /\ UNCHANGED <<instance, wasOnGround, takeoffTimeUTC, sockets, socket,
                   wsReady, wsTimers, reporterNow, nextTick, lastTick, samples,
                   records, liftoffs>>
    /\ UNCHANGED <<fetchState, posts>>
    /\ UNCHANGED notReporterVars

\* click on #gr-save, and the atc-data-sync listener it triggers
SaveClick(flt) ==
    /\ info' = [info EXCEPT !.flt = flt]
    /\ geofsRadarInfo' = [geofsRadarInfo EXCEPT !.active = info.active]
    /\ reporterOp' = "event"
    /\ UNCHANGED <<instance, wasOnGround, takeoffTimeUTC, sockets, socket,
                   wsReady, wsTimers, reporterNow, nextTick, lastTick, samples,
                   records, liftoffs>>
    /\ UNCHANGED <<fetchState, posts>>
    /\ UNCHANGED notReporterVars

\* function connectWS
connectWS ==
    /\ sockets' = Append(sockets, "CONNECTING")
    /\ socket' = Len(sockets) + 1

\* socket.onopen of the i-th WebSocket
SocketOpen(i) ==
    /\ sockets[i] = "CONNECTING"
    /\ sockets' = [sockets EXCEPT ![i] = "OPEN"]
    /\ wsReady' = TRUE
    /\ reporterOp' = "event"
    /\ UNCHANGED <<info, geofsRadarInfo, instance, wasOnGround, takeoffTimeUTC,
                   socket, wsTimers, reporterNow, nextTick, lastTick, samples,
                   records, liftoffs>>
    /\ UNCHANGED <<fetchState, posts>>
    /\ UNCHANGED notReporterVars

\* variant of socket.onclose that schedules no reconnect
SocketCloseNoReconnect(i) ==
    /\ sockets[i] \in {"CONNECTING", "OPEN"}
    /\ Len(sockets) < MaxSockets
    /\ reporterNow + WS_RECONNECT_MS <= MaxReporterNow
    /\ sockets' = [sockets EXCEPT ![i] = "CLOSED"]
    /\ wsReady' = FALSE
    /\ UNCHANGED wsTimers
    /\ reporterOp' = "event"
    /\ UNCHANGED <<info, geofsRadarInfo, instance, wasOnGround, takeoffTimeUTC,
                   socket, reporterNow, nextTick, lastTick, samples, records,
                   liftoffs>>
    /\ UNCHANGED <<fetchState, posts>>
    /\ UNCHANGED notReporterVars

\* socket.onclose of the i-th WebSocket (a failed connection closes too);
\* the model stops closing sockets when the reconnect would fall beyond its
\* horizon
SocketClose(i) ==
    /\ sockets[i] \in {"CONNECTING", "OPEN"}
    /\ Len(sockets) < MaxSockets
    /\ reporterNow + WS_RECONNECT_MS <= MaxReporterNow
    /\ sockets' = [sockets EXCEPT ![i] = "CLOSED"]
    /\ wsReady' = FALSE
    /\ wsTimers' = Append(wsTimers, reporterNow + WS_RECONNECT_MS)
    /\ reporterOp' = "event"
    /\ UNCHANGED <<info, geofsRadarInfo, instance, wasOnGround, takeoffTimeUTC,
                   socket, reporterNow, nextTick, lastTick, samples, records,
                   liftoffs>>
    /\ UNCHANGED <<fetchState, posts>>
    /\ UNCHANGED notReporterVars

\* the callback of setTimeout(connectWS, 5000)
WsTimerFire ==
    /\ wsTimers # <<>>
    /\ Head(wsTimers) = reporterNow
    /\ wsTimers' = Tail(wsTimers)
    /\ connectWS
    /\ reporterOp' = "event"
    /\ UNCHANGED <<info, geofsRadarInfo, instance, wasOnGround, takeoffTimeUTC,
                   wsReady, reporterNow, nextTick, lastTick, samples, records,
                   liftoffs>>
    /\ UNCHANGED <<fetchState, posts>>
    /\ UNCHANGED notReporterVars

\* the latest fetch is answered; nothing waits for it
FetchFulfilled ==
    /\ fetchState = "pending"
    /\ fetchState' = "fulfilled"
    /\ reporterOp' = "event"
    /\ UNCHANGED <<info, geofsRadarInfo, instance, wasOnGround, takeoffTimeUTC,
                   sockets, socket, wsReady, wsTimers, reporterNow, nextTick,
                   lastTick, posts, samples, records, liftoffs>>
    /\ UNCHANGED notReporterVars

\* a rejection handler that pushes the report again
FetchRejectedRetrying ==
    /\ fetchState = "pending"
    /\ fetchState' = "pending"
    /\ posts' = posts + 1
    /\ reporterOp' = "event"
    /\ UNCHANGED <<info, geofsRadarInfo, instance, wasOnGround, takeoffTimeUTC,
                   sockets, socket, wsReady, wsTimers, reporterNow, nextTick,
                   lastTick, samples, records, liftoffs>>
    /\ UNCHANGED notReporterVars

\* the latest fetch fails: .catch(() => {}) discards the rejection
FetchRejected ==
    /\ fetchState = "pending"
    /\ fetchState' = "rejected"
    /\ reporterOp' = "event"
    /\ UNCHANGED <<info, geofsRadarInfo, instance, wasOnGround, takeoffTimeUTC,
                   sockets, socket, wsReady, wsTimers, reporterNow, nextTick,
                   lastTick, posts, samples, records, liftoffs>>
    /\ UNCHANGED notReporterVars

\* the simulator: the vehicle leaves the ground
Liftoff ==
    /\ instance.exists
    /\ instance.groundContact = "true"
    /\ liftoffs < MaxLiftoffs
    /\ instance' = [instance EXCEPT !.groundContact = "false"]
    /\ liftoffs' = liftoffs + 1
    /\ reporterOp' = "event"
    /\ UNCHANGED <<info, geofsRadarInfo, wasOnGround, takeoffTimeUTC, sockets,
                   socket, wsReady, wsTimers, reporterNow, nextTick, lastTick,
                   samples, records>>
    /\ UNCHANGED <<fetchState, posts>>
    /\ UNCHANGED notReporterVars

\* the simulator: the vehicle touches down
Land ==
    /\ instance.exists
    /\ instance.groundContact = "false"
    /\ instance' = [instance EXCEPT !.groundContact = "true"]
    /\ reporterOp' = "event"
    /\ UNCHANGED <<info, geofsRadarInfo, wasOnGround, takeoffTimeUTC, sockets,
                   socket, wsReady, wsTimers, reporterNow, nextTick, lastTick,
                   samples, records, liftoffs>>
    /\ UNCHANGED <<fetchState, posts>>
    /\ UNCHANGED notReporterVars

\* the simulator: a vehicle is loaded, on the ground or in flight
VehicleLoad(groundContact) ==
    /\ ~instance.exists
    /\ instance' = [exists |-> TRUE, groundContact |-> groundContact]
    /\ reporterOp' = "event"
    /\ UNCHANGED <<info, geofsRadarInfo, wasOnGround, takeoffTimeUTC, sockets,
                   socket, wsReady, wsTimers, reporterNow, nextTick, lastTick,
                   samples, records, liftoffs>>
    /\ UNCHANGED <<fetchState, posts>>
    /\ UNCHANGED notReporterVars

\* the simulator: the vehicle is gone
VehicleUnload ==
    /\ instance.exists
    /\ instance' = NoInstance
    /\ reporterOp' = "event"
    /\ UNCHANGED <<info, geofsRadarInfo, wasOnGround, takeoffTimeUTC, sockets,
                   socket, wsReady, wsTimers, reporterNow, nextTick, lastTick,
                   samples, records, liftoffs>>
    /\ UNCHANGED <<fetchState, posts>>
    /\ UNCHANGED notReporterVars

\* time passes up to the next timer that is due
Elapse ==
    /\ reporterNow < nextTick
    /\ \A k \in 1..Len(wsTimers) : reporterNow < wsTimers[k]
    /\ reporterNow + SEND_INTERVAL_MS <= MaxReporterNow
    /\ reporterNow' = reporterNow + SEND_INTERVAL_MS
    /\ reporterOp' = "event"
    /\ UNCHANGED <<info, geofsRadarInfo, instance, wasOnGround, takeoffTimeUTC,
                   sockets, socket, wsReady, wsTimers, nextTick, lastTick,
                   samples, records, liftoffs>>
    /\ UNCHANGED <<fetchState, posts>>
    /\ UNCHANGED notReporterVars

\* the script has run: connectWS() and initOverlay() are done; nothing is
\* stored yet (a stored active = true is the state after one ToggleClick)
InitReporter ==
    /\ geofsRadarInfo = [active |-> FALSE]
    /\ info = [active |-> geofsRadarInfo.active, flt |-> ""]
    /\ instance = NoInstance
    /\ wasOnGround = TRUE
    /\ takeoffTimeUTC = NoTakeoffTime
    /\ sockets = <<"CONNECTING">>
    /\ socket = 1
    /\ wsReady = FALSE
    /\ wsTimers = <<>>
    /\ reporterNow = 0
    /\ nextTick = SEND_INTERVAL_MS
    /\ lastTick = NoTick
    /\ fetchState = "none"
    /\ posts = 0
    /\ reporterOp = "none"
    /\ samples = <<>>
    /\ records = 0
    /\ liftoffs = 0

NextReporter ==
    \/ Tick
    \/ ToggleClick
    \/ \E flt \in FlightNumbers : SaveClick(flt)
    \/ \E i \in 1..Len(sockets) : SocketOpen(i)
    \/ \E i \in 1..Len(sockets) : SocketClose(i)
    \/ WsTimerFire
    \/ FetchFulfilled
    \/ FetchRejected
    \/ Liftoff
    \/ Land
    \/ \E g \in GroundContacts : VehicleLoad(g)
    \/ VehicleUnload
    \/ Elapse

Init == InitViewer /\ InitHub /\ InitPresence /\ IdleGeo /\ InitReporter

InitGeo == InitViewer /\ InitHub /\ InitPresence /\ DrawGeo /\ InitReporter

SpecViewer == Init /\ [][NextViewer]_vars

SpecHub == Init /\ [][NextHub]_vars

SpecPresence == Init /\ [][NextPresence]_vars

SpecGeo == InitGeo /\ [][NextGeo]_vars

SpecReporter == Init /\ [][NextReporter]_vars

\* the reporter's events that read or write its WebSocket channel, its clock
\* or its interval; the flight, vehicle, save and fetch events leave all of
\* these unchanged
NextChannel ==
    \/ Tick
    \/ ToggleClick
    \/ \E i \in 1..Len(sockets) : SocketOpen(i)
    \/ \E i \in 1..Len(sockets) : SocketClose(i)
    \/ WsTimerFire
    \/ Elapse

\* the interval callback, the reconnect timer and the passing of time are
\* scheduled by the browser's event loop
SpecChannelFair ==
    /\ Init
    /\ [][NextChannel]_vars
    /\ WF_vars(Tick) /\ WF_vars(Elapse) /\ WF_vars(WsTimerFire)

\* setTimeout: a pending timer that is not cleared fires
SpecViewerFair == SpecViewer /\ WF_vars(\E t \in timers : TimerFire(t))

(***************************************************************************)
(* Claims about the reconnection controller.                               *)
(***************************************************************************)
\* the delays the backoff is documented to produce: 1 s, 2 s, 4 s, 8 s, 16 s,
\* then 30 s
ExpectedDelay(k) ==
    CASE k = 0 -> 1000
      [] k = 1 -> 2000
      [] k = 2 -> 4000
      [] k = 3 -> 8000
      [] k = 4 -> 16000
      [] OTHER -> 30000

\* C1: the k-th consecutive channel error since the last successful open
\* (k from 0) schedules the reconnect after min(1000 * 2^k, 30000) ms, that is
\* 1000, 2000, 4000, 8000, 16000, then 30000; the attempt counter counts
\* exactly the errors since that open.
C1_Backoff ==
    /\ reconnectAttempts = errsSinceOpen
    /\ \A t \in timers :
          /\ errsSinceOpen >= 1
          /\ t.delay = ExpectedDelay(errsSinceOpen - 1)
          /\ error = [kind |-> "lost", ms |-> t.delay]

\* C1 witness: the seventh consecutive error waits the capped 30 s
C1_Witness ==
    /\ errsSinceOpen = 7
    /\ \E t \in timers : t.delay = 30000

\* C2: once the effect's cleanup has run, no reconnect timer is pending, no
\* channel is open or connecting, and no further EventSource is constructed.
C2_NoRetryAfterTeardown ==
    [][ /\ phase' = "torndown" => (timers' = {} /\ LiveSources' = {})
        /\ phase = "torndown" => Len(sources') = Len(sources) ]_vars

\* C2 witness: the cleanup ran while a reconnect timer was pending
C2_Witness ==
    /\ phase = "torndown"
    /\ connectionStatus = "disconnected"
    /\ reconnectTimeoutRef >= 2
    /\ timers = {}

\* C3: at most one reconnect timer is outstanding in every reachable state.
C3_OneTimer == Cardinality(timers) <= 1

\* C3 witness: a timer is pending after an earlier one has fired
C3_Witness ==
    /\ Cardinality(timers) = 1
    /\ timersSet >= 3

\* C4: an open event leaves the controller connected, with retry counter 0
\* and no error shown; the first channel error after an open waits 1000 ms.
C4_OpenResets ==
    [][ \A e \in 1..Len(sources) :
          /\ OnOpen(e) =>
                /\ connectionStatus' = "connected"
                /\ reconnectAttempts' = 0
                /\ error' = NoError
          /\ (OnError(e) /\ connectionStatus = "connected") =>
                \A t \in timers' \ timers : t.delay = 1000 ]_vars

\* C4 witness: three failures, then an open, then an error that waits 1 s
C4_Witness ==
    /\ failsBeforeOpen = 3
    /\ errsSinceOpen = 1
    /\ \E t \in timers : t.delay = 1000

\* C5: before teardown the controller never stays disconnected: after each
\* channel error the timer fires, the status is connecting again and a new
\* EventSource has been constructed.
C5_Reconnects ==
    \A n \in 1..MaxSources :
        (phase = "mounted" /\ connectionStatus = "disconnected" /\ Len(sources) = n)
        ~> \/ phase = "torndown"
           \/ /\ connectionStatus = "connecting"
              /\ Len(sources) = n + 1
              /\ sources[n + 1] = "connecting"

\* C5 witness: the controller is connecting again after a channel error
C5_Witness ==
    /\ phase = "mounted"
    /\ connectionStatus = "connecting"
    /\ Len(sources) >= 3
    /\ reconnectAttempts >= 2

(***************************************************************************)
(* Claims about the registry, the removal endpoint and the broadcast hub.  *)
(***************************************************************************)
Age(entry) == serverNow - entry.lastSeen

\* the indexes of the entries of a snapshot that carry the identifier
EntriesOf(snapshot, id) == { i \in 1..Len(snapshot) : snapshot[i].id = id }

\* C6: the registry and its snapshot hold at most one entry per identifier;
\* right after an accepted report the snapshot holds exactly one entry of
\* that identifier, with the submitted values; and an entry changes only by
\* an accepted report of its identifier (last write wins).
C6_UniqueLastWriteWins ==
    [][ LET snap == Snapshot(activeAircraft', serverNow')
        IN  /\ \A j, k \in DOMAIN activeAircraft' :
                 activeAircraft'[j].id = activeAircraft'[k].id => j = k
            /\ \A i, j \in 1..Len(snap) : snap[i].id = snap[j].id => i = j
            /\ (lastOp'.op = "ingest" /\ response'.status = 200) =>
                 /\ EntriesOf(snap, lastOp'.id) # {}
                 /\ \A i \in EntriesOf(snap, lastOp'.id) :
                      /\ snap[i].heading = lastOp'.heading
                      /\ snap[i].lastSeen = serverNow'
            /\ \A k \in DOMAIN activeAircraft \cap DOMAIN activeAircraft' :
                 \/ activeAircraft'[k] = activeAircraft[k]
                 \/ lastOp'.op = "ingest" /\ lastOp'.id = k /\ response'.status = 200
      ]_vars

\* C6 witness: heading 90, then heading 180 for the same id: one entry, 180
C6_Witness ==
    /\ lastOp.op = "ingest"
    /\ lastOp.id = "AA1"
    /\ lastOp.prior = 90
    /\ lastOp.heading = 180
    /\ activeAircraft["AA1"].heading = 180
    /\ Cardinality(EntriesOf(Snapshot(activeAircraft, serverNow), "AA1")) = 1

\* C7: an entry whose lastSeen is more than 30 s old is in no snapshot and in
\* no pushed message, and is gone from the registry after the sweep of a
\* broadcast tick; an entry less than 30 s old is in the snapshot and
\* survives the sweep unchanged.
C7_Expiry ==
    [][ LET snap == Snapshot(activeAircraft', serverNow')
        IN  /\ \A k \in DOMAIN activeAircraft' :
                 LET age == serverNow' - activeAircraft'[k].lastSeen
                 IN  /\ age > 30000 =>
                           /\ EntriesOf(snap, activeAircraft'[k].id) = {}
                           /\ \A c \in DOMAIN sent' :
                                EntriesOf(sent'[c].aircraft, activeAircraft'[k].id) = {}
                     /\ age < 30000 =>
                           \E i \in 1..Len(snap) : snap[i] = activeAircraft'[k]
            /\ lastOp'.op = "tick" =>
                 \A k \in DOMAIN activeAircraft :
                     /\ Age(activeAircraft[k]) > 30000 =>
                           k \notin DOMAIN activeAircraft'
                     /\ Age(activeAircraft[k]) < 30000 =>
                           /\ k \in DOMAIN activeAircraft'
                           /\ activeAircraft'[k] = activeAircraft[k]
      ]_vars

\* C7 witness: a tick swept a stale entry away and kept a young one
C7_Witness ==
    /\ lastOp.op = "tick"
    /\ lastOp.stale # {}
    /\ DOMAIN activeAircraft # {}
    /\ DOMAIN activeAircraft \cap lastOp.stale = {}

\* C8: a new connection is in the connection set at once and is pushed, in
\* the same step and without a tick, a message that holds every entry of the
\* registry not older than 30 s: it is non-empty whenever such an entry exists.
C8_SnapshotOnConnect ==
    lastOp.op = "connect" =>
        /\ lastOp.conn \in connections
        /\ lastOp.conn \in DOMAIN sent
        /\ \A k \in DOMAIN activeAircraft :
              Age(activeAircraft[k]) <= 30000 =>
                  /\ Len(sent[lastOp.conn].aircraft) > 0
                  /\ \E i \in 1..Len(sent[lastOp.conn].aircraft) :
                        sent[lastOp.conn].aircraft[i] = activeAircraft[k]

\* C8 witness: a viewer connects while the registry holds a stale entry and a
\* live one, and is sent the live one
C8_Witness ==
    /\ lastOp.op = "connect"
    /\ lastOp.conn \in DOMAIN sent
    /\ Len(sent[lastOp.conn].aircraft) = 1
    /\ Cardinality(DOMAIN activeAircraft) = 2

\* C9: in a broadcast tick every connection whose push fails leaves the
\* connection set, every other connection stays and is pushed the tick's
\* snapshot, and the registry changes by expiry alone.
C9_FailureIsolation ==
    [][ lastOp'.op = "tick" =>
          /\ \A c \in connections :
                /\ c \in broken => (c \notin connections' /\ c \notin DOMAIN sent')
                /\ c \notin broken =>
                      /\ c \in connections'
                      /\ c \in DOMAIN sent'
                      /\ sent'[c] = Message(Snapshot(activeAircraft', serverNow'))
          /\ \A k \in DOMAIN activeAircraft' :
                k \in DOMAIN activeAircraft /\ activeAircraft'[k] = activeAircraft[k]
          /\ \A k \in DOMAIN activeAircraft \ DOMAIN activeAircraft' :
                Age(activeAircraft[k]) > 30000
      ]_vars

\* C9 witness: a tick with a failed push, two served connections and a
\* non-empty snapshot
C9_Witness ==
    /\ lastOp.op = "tick"
    /\ lastOp.failed # {}
    /\ Cardinality(DOMAIN sent) = 2
    /\ \A c \in DOMAIN sent : Len(sent[c].aircraft) > 0

\* C10: a DELETE with a non-empty identifier answers 2xx, says 'Aircraft
\* cleared' exactly when the entry existed and 'Aircraft not found'
\* otherwise, leaves the identifier absent, and applied twice gives the
\* registry that one application gives.
C10_RemoveIdempotent ==
    /\ (lastOp.op = "DELETE" /\ lastOp.id # "") =>
          /\ response.status \in 200..299
          /\ lastOp.existed => response.message = "Aircraft cleared"
          /\ ~lastOp.existed => response.message = "Aircraft not found"
          /\ lastOp.id \notin DOMAIN activeAircraft
    /\ \A id \in RemovalIds \ {""} :
          LET once == DeleteAircraft(activeAircraft, id)
              twice == DeleteAircraft(once.store, id)
          IN  /\ twice.store = once.store
              /\ twice.response.status \in 200..299
              /\ twice.response.message = "Aircraft not found"
              /\ id \notin DOMAIN once.store

\* C10 witness: a DELETE for an identifier the registry does not hold, while
\* it holds another
C10_Witness ==
    /\ lastOp.op = "DELETE"
    /\ lastOp.id = "AA1"
    /\ ~lastOp.existed
    /\ response = [status |-> 200, message |-> "Aircraft not found"]
    /\ DOMAIN activeAircraft = {"BB2"}

\* C11: the removal endpoint answers 400 exactly when the identifier is
\* missing and then leaves the registry as it was; every other identifier
\* is answered 2xx.
C11_MissingIdRejected ==
    /\ lastOp.op = "DELETE" =>
          /\ response.status = 400 <=> lastOp.id = ""
          /\ lastOp.id # "" => response.status \in 200..299
    /\ DeleteAircraft(activeAircraft, "").store = activeAircraft
    /\ DeleteAircraft(activeAircraft, "").response.status = 400
    /\ \A id \in RemovalIds \ {""} :
          DeleteAircraft(activeAircraft, id).response.status \in 200..299

\* C11 witness: a DELETE without identifier is refused while the registry
\* holds two aircraft
C11_Witness ==
    /\ lastOp.op = "DELETE"
    /\ lastOp.id = ""
    /\ response.status = 400
    /\ DOMAIN activeAircraft = AircraftIds

(***************************************************************************)
(* Claims about the presence tracker.                                      *)
(***************************************************************************)
\* the sessions of a map that are at most 30 s old at time t
LiveAt(map, t) == { id \in DOMAIN map : t - map[id] <= 30000 }

PostedObject == presenceOp.op = "POST" /\ presenceOp.body.kind = "object"

\* C12: from an empty tracker a heartbeat without id creates exactly one
\* session and reports a live count of 1; once every session is more than
\* 30 s old a count query answers 0 and empties the tracker.
C12_PresenceLifecycle ==
    /\ (PostedObject /\ ~presenceOp.body.hasId /\ presenceOp.before = EmptyViewers) =>
          /\ Size(activeViewers) = 1
          /\ presenceResponse.viewerId \in DOMAIN activeViewers
          /\ presenceResponse.activeViewers = 1
          /\ presenceResponse.status = 200
    /\ (presenceOp.op = "GET" /\ LiveAt(presenceOp.before, presenceNow) = {}) =>
          /\ presenceResponse.activeViewers = 0
          /\ activeViewers = EmptyViewers

\* C12 witness: the one generated session has expired and the count is 0
C12_Witness ==
    /\ presenceOp.op = "GET"
    /\ DOMAIN presenceOp.before = {"viewer_b"}
    /\ presenceNow - presenceOp.before["viewer_b"] = 30001
    /\ presenceResponse.activeViewers = 0

\* C13 as stated: for every viewerId string of the body, the empty one
\* included, the response carries that id and its session is refreshed.
C13_AnyStringId ==
    (PostedObject /\ presenceOp.body.hasId) =>
        /\ presenceResponse.viewerId = presenceOp.body.viewerId
        /\ presenceOp.body.viewerId \in DOMAIN activeViewers

\* C13, amended: for every non-empty viewerId string of the body the response
\* carries that id, its session exists with last heartbeat = now, and the
\* live count is the number of live sessions before the call when the
\* session was one of them (one more when it was not).
C13_HeartbeatWithId ==
    (PostedObject /\ presenceOp.body.hasId /\ presenceOp.body.viewerId # "") =>
        LET id == presenceOp.body.viewerId
            live == LiveAt(presenceOp.before, presenceNow)
        IN  /\ presenceResponse.status = 200
            /\ presenceResponse.viewerId = id
            /\ id \in DOMAIN activeViewers
            /\ activeViewers[id] = presenceNow
            /\ id \in live => presenceResponse.activeViewers = Cardinality(live)
            /\ id \notin live => presenceResponse.activeViewers = Cardinality(live) + 1

\* C13 witness: v1 refreshes its live session beside another live session
C13_Witness ==
    /\ PostedObject
    /\ presenceOp.body.viewerId = "v1"
    /\ "v1" \in DOMAIN presenceOp.before
    /\ presenceOp.before["v1"] < presenceNow
    /\ presenceResponse.activeViewers = 2
    /\ Size(presenceOp.before) = 2

\* C14: a GET always answers 200; hasViewers holds exactly when
\* activeViewers > 0, lastActivity is null exactly when activeViewers = 0,
\* and with no live session the answer is 0, false, null.
C14_ZeroViewersSafe ==
    presenceOp.op = "GET" =>
        /\ presenceResponse.status = 200
        /\ presenceResponse.hasViewers <=> presenceResponse.activeViewers > 0
        /\ presenceResponse.lastActivity.null <=> presenceResponse.activeViewers = 0
        /\ LiveAt(presenceOp.before, presenceNow) = {} =>
              /\ presenceResponse.activeViewers = 0
              /\ ~presenceResponse.hasViewers
              /\ presenceResponse.lastActivity = NullTime

\* C14 witness: a GET on a tracker that holds no session at all
C14_Witness ==
    /\ presenceOp.op = "GET"
    /\ presenceOp.before = EmptyViewers
    /\ presenceNow > 0
    /\ presenceResponse.lastActivity = NullTime

\* the sweep has run: no session older than 30 s is left, every session at
\* most 30 s old is kept, and a count that is reported is the size of the map
SweptAndCounted ==
    /\ \A id \in DOMAIN activeViewers : presenceNow - activeViewers[id] <= 30000
    /\ LiveAt(presenceOp.before, presenceNow) \subseteq DOMAIN activeViewers
    /\ presenceResponse.status = 200 =>
          presenceResponse.activeViewers = Size(activeViewers)

\* C15 as stated: the sweep has run after every GET and every POST.
C15_AfterEveryRequest ==
    presenceOp.op \in {"GET", "POST"} => SweptAndCounted

\* C15, amended: the sweep has run after every GET and after every POST that
\* is answered 200 (a POST answered 400 leaves the map as it was).
C15_SweepThenCount ==
    (presenceOp.op \in {"GET", "POST"} /\ presenceResponse.status = 200) =>
        SweptAndCounted

\* C15 witness: a POST sweeps a stale session, keeps one exactly 30 s old and
\* counts it with the new one
C15_Witness ==
    /\ PostedObject
    /\ \E a, b \in DOMAIN presenceOp.before :
          /\ presenceNow - presenceOp.before[a] > 30000
          /\ presenceNow - presenceOp.before[b] = 30000
          /\ a \notin DOMAIN activeViewers
          /\ b \in DOMAIN activeViewers
    /\ presenceResponse.activeViewers = 2


(***************************************************************************)
(* Claims about the geodesy helpers.                                       *)
(***************************************************************************)
\* a waypoint that carries both a latitude and a longitude (0 included)
Present(wp) == wp.hasLat /\ wp.hasLon

\* 0-based indices of a waypoint list
Indices(waypoints) == 0..(Len(waypoints) - 1)

DistanceTo(aircraft, wp) ==
    calculateDistance(aircraft.lat, aircraft.lon, wp.lat, wp.lon)

\* the indices of the waypoints at minimum distance from the aircraft
Nearest(aircraft, waypoints) ==
    {c \in Indices(waypoints) :
        /\ Present(waypoints[c + 1])
        /\ \A k \in Indices(waypoints) :
               Present(waypoints[k + 1]) =>
                   DistanceTo(aircraft, waypoints[c + 1])
                       <= DistanceTo(aircraft, waypoints[k + 1])}

FindReturned ==
    /\ geoCall.op = "findActiveWaypointIndex"
    /\ geoResult.returned

\* C16: with c the index of the waypoint at minimum distance from the
\* aircraft, findActiveWaypointIndex returns c + 1 when that distance is below
\* 50 km and c is not the last index, and c otherwise (so never last + 1).
C16_AdvanceRule ==
    (FindReturned /\ Nearest(geoCall.aircraft, geoCall.waypoints) # {}) =>
        \E c \in Nearest(geoCall.aircraft, geoCall.waypoints) :
            geoResult.value =
                IF /\ DistanceTo(geoCall.aircraft, geoCall.waypoints[c + 1]) < 50000
                   /\ c < Len(geoCall.waypoints) - 1
                THEN c + 1
                ELSE c

\* C17: when every waypoint carries a latitude and a longitude (0 included)
\* and the aircraft is more than 50 km from all of them, the result is the
\* index of the nearest waypoint, without advancing.
C17_DistantAircraft ==
    (/\ FindReturned
     /\ Len(geoCall.waypoints) > 0
     /\ \A k \in Indices(geoCall.waypoints) :
            /\ Present(geoCall.waypoints[k + 1])
            /\ DistanceTo(geoCall.aircraft, geoCall.waypoints[k + 1]) > 50000)
        => geoResult.value \in Nearest(geoCall.aircraft, geoCall.waypoints)

\* C18: the result is -1 exactly when no waypoint of the list (the empty list
\* included) carries both coordinates; a waypoint lacking a coordinate is
\* never the closest one; the result is an index into the original list.
C18_SentinelAndSkipping ==
    FindReturned =>
        LET waypoints == geoCall.waypoints
            closest == ClosestLoop(geoCall.aircraft, waypoints, 0, -1, Infinity)
                           .closestWaypointIndex
        IN  /\ (geoResult.value = -1) <=>
                   (\A k \in Indices(waypoints) : ~Present(waypoints[k + 1]))
            /\ closest # -1 => Present(waypoints[closest + 1])
            /\ geoResult.value \in {-1} \cup Indices(waypoints)

BearingReturned ==
    /\ geoCall.op = "calculateBearing"
    /\ geoResult.returned

RawAzimuth == theta(geoCall.from[1], geoCall.from[2], geoCall.to[1], geoCall.to[2])

\* C19: the bearing returned lies in [0, 360): a raw azimuth theta in
\* [-180, 180] is returned as (theta + 360) mod 360, that is theta + 360 when
\* theta is negative and theta otherwise; 360 is never returned.
C19_BearingRange ==
    BearingReturned =>
        /\ RawAzimuth >= -180000 /\ RawAzimuth <= 180000
        /\ geoResult.value >= 0
        /\ geoResult.value < 360000
        /\ geoResult.value = (RawAzimuth + 360000) % 360000
        /\ geoResult.value = IF RawAzimuth < 0 THEN RawAzimuth + 360000 ELSE RawAzimuth

\* a negative azimuth has been normalised
C19_Witness ==
    /\ BearingReturned
    /\ RawAzimuth < 0
    /\ geoResult.value = RawAzimuth + 360000


(***************************************************************************)
(* Claims about the reporter.                                              *)
(***************************************************************************)
\* the state right after a tick that passed the guard of line 91
AfterActiveTick == reporterOp = "tick" /\ lastTick.ran

\* the samples that are airborne while the sample before was on the ground;
\* before the first sample stands the initial wasOnGround = true
SampledLiftoffs ==
    {k \in 1..Len(samples) :
        /\ ~samples[k].onGround
        /\ k = 1 \/ samples[k - 1].onGround}

LastOf(S) == CHOOSE k \in S : \A j \in S : j <= k

\* C20 (as stated): whatever the ticks and the ground-contact changes, one
\* takeoff timestamp is recorded per ground-to-airborne transition of the
\* vehicle; read at the weakest, after every active tick the number of
\* records equals the number of transitions.
C20_OncePerTransition ==
    AfterActiveTick => records = liftoffs

\* C20 (amended): the takeoff timestamp changes once per sampled liftoff, an
\* active tick that samples airborne while the previous active sample (true
\* before the first) was on the ground; it holds the time of the last such
\* tick, and is empty before the first; no other sample, a landing included,
\* changes it.
C20_OncePerSampledLiftoff ==
    /\ records = Cardinality(SampledLiftoffs)
    /\ takeoffTimeUTC =
           IF SampledLiftoffs = {}
           THEN NoTakeoffTime
           ELSE toISOString(samples[LastOf(SampledLiftoffs)].at)
    /\ wasOnGround = (samples = <<>> \/ samples[Len(samples)].onGround)

\* a takeoff, a landing and a second takeoff were sampled: the timestamp is
\* the time of the second takeoff's sample
C20_Witness ==
    /\ AfterActiveTick
    /\ Len(samples) = 3
    /\ ~samples[1].onGround
    /\ samples[2].onGround
    /\ ~samples[3].onGround
    /\ records = 2
    /\ takeoffTimeUTC = toISOString(samples[3].at)


\* C21: a tick on which reporting is not enabled or no vehicle exists pushes
\* nothing, neither to the ingestion endpoint nor on the secondary channel,
\* and leaves the previous on-ground flag, the takeoff timestamp and the
\* flight info as they were.
C21_InactiveTickNoOp ==
    [][(reporterOp' = "tick" /\ (~info.active \/ ~instance.exists)) =>
           /\ ~lastTick'.ran
           /\ ~lastTick'.post.sent
           /\ ~lastTick'.ws.sent
           /\ wasOnGround' = wasOnGround
           /\ takeoffTimeUTC' = takeoffTimeUTC
           /\ info' = info]_vars

\* a tick went by with the secondary channel open and a vehicle in flight
\* that was last sampled on the ground, while reporting was disabled
C21_Witness ==
    /\ reporterOp = "tick"
    /\ ~lastTick.ran
    /\ ~info.active
    /\ instance.exists
    /\ instance.groundContact = "false"
    /\ wasOnGround
    /\ wsReady
    /\ Len(samples) > 0


(***************************************************************************)
(* Claims about the altitude fields of a report.                           *)
(***************************************************************************)
AltitudeReturned ==
    /\ geoCall.op = "payloadAltitude"
    /\ geoResult.returned

\* the collision point the offset is read from exists and has a position
OffsetAvailable(values) ==
    /\ values.collisionPoints.defined
    /\ Len(values.collisionPoints.points) >= 2
    /\ values.collisionPoints.points[Len(values.collisionPoints.points) - 1]
           .hasWorldPosition

\* the three sources of the estimate are all there
SourcesAvailable(values) ==
    /\ values.altitude.type = "number"
    /\ values.groundElevationFeet.type = "number"
    /\ OffsetAvailable(values)

\* n is x (in units of 10^-7 ft) rounded to the nearest foot, a half upwards
NearestFoot(n, x) ==
    /\ n.type = "number"
    /\ ~n.nan
    /\ 2 * (x - n.x * PerFoot) < PerFoot
    /\ 2 * (x - n.x * PerFoot) >= 0 - PerFoot

\* altitudeMSL - groundElevationFeet + offset in feet, all three available
EstimateOf(values) ==
    values.altitude.x - values.groundElevationFeet.x
        + values.collisionPoints.points[Len(values.collisionPoints.points) - 1].z
              * FEET_PER_METRE_COLLISION

\* a mean-sea-level altitude can be had: from the position (lla[2], when it
\* is not 0) or from the animation values
MslKnown(values) == Truthy(values.lla2) \/ values.altitude.type = "number"

MslOf(values) ==
    IF Truthy(values.lla2)
    THEN values.lla2.x * FEET_PER_METRE_LLA
    ELSE values.altitude.x

\* C22 (as stated): the estimate is null whenever one of its three sources
\* is unavailable, and alt is then the mean-sea-level altitude rounded to the
\* nearest foot (a number, equal to the report's altMSL); with all three
\* available alt is round(altitudeMSL - groundElevation + offsetFeet).
C22_AltFallback ==
    AltitudeReturned =>
        LET values == geoCall.values
            report == geoResult.value
        IN  IF SourcesAvailable(values)
            THEN NearestFoot(report.alt, EstimateOf(values))
            ELSE /\ report.altAGL = JsNull
                 /\ report.alt.type = "number"
                 /\ ~report.alt.nan
                 /\ report.alt = report.altMSL

\* C22 (amended): as stated, where the mean-sea-level altitude of the
\* fallback is lla[2] * 3.28084 when lla[2] is a number other than 0 and the
\* animation altitude otherwise; when neither can be had alt is NaN.
C22_AltFallbackWhenMslKnown ==
    AltitudeReturned =>
        LET values == geoCall.values
            report == geoResult.value
        IN  IF SourcesAvailable(values)
            THEN NearestFoot(report.alt, EstimateOf(values))
            ELSE /\ report.altAGL = JsNull
                 /\ report.alt = report.altMSL
                 /\ IF MslKnown(values)
                    THEN NearestFoot(report.alt, MslOf(values))
                    ELSE report.alt = JsNaN

\* no ground elevation: alt is the position's 20 m in feet, rounded
C22_Witness ==
    /\ AltitudeReturned
    /\ geoCall.values.groundElevationFeet = JsUndefined
    /\ geoCall.values.altitude.type = "number"
    /\ OffsetAvailable(geoCall.values)
    /\ Truthy(geoCall.values.lla2)
    /\ geoResult.value.altAGL = JsNull
    /\ geoResult.value.alt = JsNumber(66)


\* C23: an active tick pushes exactly one report to the ingestion endpoint,
\* and pushes the same payload on the secondary channel exactly when the
\* current socket is open; no other step pushes anything, so nothing is sent
\* on a socket that has not opened or has closed.
C23_PushPerActiveTick ==
    [][/\ (reporterOp' = "tick" /\ info.active /\ instance.exists) =>
              /\ posts' = posts + 1
              /\ lastTick'.post = Payload(takeoffTimeUTC', info.flt)
              /\ lastTick'.ws.sent <=> sockets[socket] = "OPEN"
              /\ lastTick'.ws.sent => lastTick'.ws = lastTick'.post
       /\ reporterOp' # "tick" =>
              /\ posts' = posts
              /\ lastTick' = lastTick]_vars

\* after a reconnect the second socket is open, and the second report went
\* to the endpoint and on that socket
C23_Witness ==
    /\ AfterActiveTick
    /\ posts = 2
    /\ Len(sockets) = 2
    /\ sockets[1] = "CLOSED"
    /\ sockets[socket] = "OPEN"
    /\ lastTick.ws.sent
    /\ lastTick.ws = lastTick.post


\* C24: pushes are fire-and-forget. A tick that is due can always run,
\* whatever became of the latest push (pending, answered or failed); an
\* active tick takes a fresh sample and pushes the payload of the state it
\* finds; only a tick pushes, so a failed push is never sent again.
C24_FireAndForget ==
    /\ [](reporterNow = nextTick => ENABLED Tick)
    /\ [][/\ (reporterOp' = "tick" /\ info.active /\ instance.exists) =>
                 /\ samples' = Append(samples, [onGround |-> OnGround(instance),
                                                at |-> reporterNow])
                 /\ lastTick'.post.sent
                 /\ lastTick'.post.flightNo = info.flt
                 /\ lastTick'.post.takeoffTime = takeoffTimeUTC'
                 /\ fetchState' = "pending"
                 /\ posts' = posts + 1
          /\ reporterOp' # "tick" => posts' = posts]_vars

\* the first push failed; the next tick sampled and pushed all the same
C24_Witness ==
    /\ AfterActiveTick
    /\ lastTick.found = "rejected"
    /\ lastTick.post.sent
    /\ posts = 2
    /\ Len(samples) = 2
    /\ samples[2].at = samples[1].at + SEND_INTERVAL_MS
    /\ fetchState = "pending"


(***************************************************************************)
(* Further claims about the viewer.                                        *)
(***************************************************************************)
\* C25: before teardown the status is "disconnected" exactly when a
\* reconnect timer is pending; a step into "disconnected" schedules a timer,
\* and a step in which a timer fires sets the status to "connecting".
C25_DisconnectedIffTimer ==
    /\ [](phase # "torndown" =>
              (connectionStatus = "disconnected" <=> timers # {}))
    /\ [][/\ (connectionStatus # "disconnected"
                  /\ connectionStatus' = "disconnected") =>
                 \E t \in timers' : t \notin timers
          /\ (phase' # "torndown" /\ \E t \in timers : t \notin timers') =>
                 connectionStatus' = "connecting"]_vars

\* the timer of a lost connection has fired: connecting again, none pending
C25_Witness ==
    /\ phase = "mounted"
    /\ connectionStatus = "connecting"
    /\ timers = {}
    /\ timersSet = 1
    /\ Len(sources) = 2


\* C26: a viewer session never holds more than one channel that is not
\* closed, and that one is the referenced channel; a step that opens a new
\* channel leaves every earlier one closed, and a step that schedules the
\* retry leaves no channel unclosed.
C26_OneChannel ==
    /\ [](\A e1, e2 \in LiveSources : e1 = e2 /\ e1 = eventSourceRef)
    /\ [][/\ Len(sources') > Len(sources) =>
                 \A e \in 1..Len(sources) : sources'[e] = "closed"
          /\ (\E t \in timers' : t \notin timers) =>
                 \A e \in 1..Len(sources') : sources'[e] = "closed"]_vars

\* two channels were lost and closed, the third one is open
C26_Witness ==
    /\ Len(sources) = 3
    /\ sources[1] = "closed"
    /\ sources[2] = "closed"
    /\ sources[3] = "open"
    /\ eventSourceRef = 3


\* the list a well-formed message carries: its aircraft array, or no entry
\* when it has none
ListOf(data) == IF data.kind = "array" THEN data.aircraft ELSE <<>>

\* C27: a well-formed stream message replaces the aircraft list by the
\* message's own array, entry by entry (an entry without ts gets the time of
\* handling), and by the empty list when the message has no array; nothing of
\* the earlier list is kept. Every other step (a message that does not parse,
\* a channel error, a reconnect) leaves the list as it is.
C27_WholesaleReplace ==
    [][IF delivered'.handled /\ delivered'.data.kind # "malformed"
       THEN LET list == ListOf(delivered'.data)
            IN  /\ Len(aircrafts') = Len(list)
                /\ \A i \in 1..Len(list) :
                       /\ aircrafts'[i].callsign = list[i].callsign
                       /\ aircrafts'[i].ts =
                              IF list[i].ts # 0 THEN list[i].ts ELSE delivered'.now
       ELSE aircrafts' = aircrafts]_vars

\* after a reconnect, a message with one aircraft that carries no ts was
\* handled: the list is that aircraft, stamped with the time of handling
C27_Witness ==
    /\ delivered.handled
    /\ delivered.data.kind = "array"
    /\ Len(delivered.data.aircraft) = 1
    /\ aircrafts = <<Entry("AA1", delivered.now)>>
    /\ Len(sources) > 1


(***************************************************************************)
(* A further claim about the active waypoint.                              *)
(***************************************************************************)
\* a waypoint the loop of findActiveWaypointIndex does not skip and for which
\* drawFlightPlan makes a marker: both coordinates given and not 0
Drawn(wp) == ~Falsy(wp.hasLat, wp.lat) /\ ~Falsy(wp.hasLon, wp.lon)

\* C28 (as stated): a result other than -1 is an index of the list and
\* designates a waypoint with both a latitude and a longitude, so that a
\* flight plan with at least one located waypoint gets the active marker on
\* exactly one waypoint.
C28_ActiveIsLocated ==
    FindReturned =>
        LET waypoints == geoCall.waypoints
            markers == ActiveMarkers(waypoints, geoResult.value)
        IN  /\ geoResult.value # -1 =>
                   /\ geoResult.value \in Indices(waypoints)
                   /\ Present(waypoints[geoResult.value + 1])
            /\ (\E k \in Indices(waypoints) : Present(waypoints[k + 1])) =>
                   Cardinality(markers) = 1

\* C28 (amended): a result other than -1 is an index of the list; it is the
\* closest waypoint, which has both coordinates, or the one after it, which
\* need not have them; the active marker is drawn on at most one waypoint,
\* and on one exactly when the waypoint at the result has both coordinates
\* given and not 0.
C28_ActiveInRange ==
    FindReturned =>
        LET waypoints == geoCall.waypoints
            markers == ActiveMarkers(waypoints, geoResult.value)
            closest == ClosestLoop(geoCall.aircraft, waypoints, 0, -1, Infinity)
                           .closestWaypointIndex
        IN  /\ geoResult.value # -1 =>
                   /\ geoResult.value \in Indices(waypoints)
                   /\ closest \in Indices(waypoints)
                   /\ Drawn(waypoints[closest + 1])
                   /\ geoResult.value \in {closest, closest + 1}
            /\ markers \subseteq {geoResult.value}
            /\ markers # {} <=>
                   /\ geoResult.value # -1
                   /\ Drawn(waypoints[geoResult.value + 1])
            /\ (geoResult.value # -1 /\ geoResult.value = closest) =>
                   markers = {closest}

\* the aircraft is next to B, the waypoint after B has no latitude: the
\* result is that waypoint, and no active marker is drawn
C28_Witness ==
    /\ FindReturned
    /\ geoCall.aircraft = [lat |-> 10, lon |-> 11]
    /\ geoCall.waypoints = <<WaypointB, WaypointNoLat>>
    /\ geoResult.value = 1
    /\ ActiveMarkers(geoCall.waypoints, geoResult.value) = {}

\* C29 (as stated): a presence POST whose body is not a JSON object (not
\* parseable, null, or a JSON scalar) is answered with 400 and leaves the
\* session map exactly as the request found it.
C29_NonObjectRejected ==
    (presenceOp.op = "POST" /\ presenceOp.body.kind # "object") =>
        /\ presenceResponse.status = 400
        /\ activeViewers = presenceOp.before

\* C29 (amended): a presence POST whose body does not parse, or parses to
\* null, is answered with 400 without success, and the session map is exactly
\* the one the request found: nothing created, refreshed or swept. A body that
\* parses to a JSON scalar is handled like an object without viewerId: 200,
\* and a session under a generated id stamped with the current time.
C29_UnreadableRejected ==
    /\ (presenceOp.op = "POST" /\ presenceOp.body.kind \in {"malformed", "null"}) =>
           /\ presenceResponse.status = 400
           /\ ~presenceResponse.success
           /\ activeViewers = presenceOp.before
    /\ (presenceOp.op = "POST" /\ presenceOp.body.kind = "scalar") =>
           /\ presenceResponse.status = 200
           /\ presenceResponse.viewerId \in DOMAIN activeViewers
           /\ activeViewers[presenceResponse.viewerId] = presenceNow

\* an unparseable POST arrives while the map holds an expired session, which
\* is still there afterwards
C29_Witness ==
    /\ presenceOp.op = "POST"
    /\ presenceOp.body.kind = "malformed"
    /\ presenceResponse.status = 400
    /\ \E id \in DOMAIN presenceOp.before :
          /\ presenceNow - presenceOp.before[id] > 30000
          /\ id \in DOMAIN activeViewers

\* sockets that are connecting or open
Alive == { i \in 1..Len(sockets) : sockets[i] \in {"CONNECTING", "OPEN"} }

\* C30, state part: the ready flag is set only while the current socket is
\* open; there is never more than one socket connecting or open and never
\* more than one reconnect pending, and a reconnect is pending only while no
\* socket is connecting or open.
ChannelState ==
    /\ wsReady => sockets[socket] = "OPEN"
    /\ Cardinality(Alive) <= 1
    /\ Len(wsTimers) <= 1
    /\ Cardinality(Alive) + Len(wsTimers) = 1

\* C30, step part: the ready flag rises only at the open event of the current
\* socket and is down after every close event; every close event schedules
\* exactly one reconnect, due 5000 ms later.
ChannelStep ==
    /\ (~wsReady /\ wsReady') =>
           sockets[socket] = "CONNECTING" /\ sockets'[socket] = "OPEN"
    /\ \A i \in 1..Len(sockets) :
           (sockets[i] # "CLOSED" /\ sockets'[i] = "CLOSED") =>
               /\ ~wsReady'
               /\ wsTimers' = Append(wsTimers, reporterNow + 5000)

\* C30: the secondary channel of the reporter keeps the state part and the
\* step part above, and after any close event a new connection attempt
\* eventually follows: a further socket is constructed and becomes the
\* current one.
C30_SecondaryChannel ==
    /\ []ChannelState
    /\ [][ChannelStep]_vars
    /\ \A n \in 1..MaxSockets :
           (Len(sockets) = n /\ sockets[n] = "CLOSED") ~>
               (Len(sockets) = n + 1 /\ socket = n + 1)

\* the second socket was open and has closed at 5000 ms; its reconnect, due
\* at 10000 ms, has constructed a third socket
C30_Witness ==
    /\ sockets = <<"CLOSED", "CLOSED", "CONNECTING">>
    /\ socket = 3
    /\ ~wsReady
    /\ wsTimers = <<>>
    /\ reporterNow = 10000

====
